---- MODULE Spec2Model ----
(***************************************************************************)
(* epub2mp3: the chapter conversion pipeline of EpubToMP3Converter          *)
(* (src/src/epub2mp3/main.py) and the post-processing helpers it calls      *)
(* (src/src/epub2mp3/utils.py).                                             *)
(*                                                                         *)
(* The program is a single asyncio event loop.  convert_epub enumerates    *)
(* the chapters synchronously, creates one task per chapter that is not    *)
(* skipped, and awaits asyncio.gather.  A task only yields to the loop at  *)
(* `await communicate.save(...)` and at `await asyncio.sleep(...)`; the     *)
(* post-processing calls are blocking, so while one chapter is in          *)
(* post-processing no other task moves.                                    *)
(***************************************************************************)
EXTENDS Integers, Sequences, FiniteSets, TLC

\* ---------------------------------------------------------------- bounds

\* Number of (non-empty) chapters get_chapters returns.
NumChapters == 3

\* Largest value of --retries explored (the smallest is -1).
MaxRetries == 2

\* Number of times main() is invoked on the same output directory.
Runs == 2

\* Size of the limiter the specification describes (spec 4.4; 3 by default).
\* The source has none; 2 is used so that NumChapters chapters exceed it.
concurrency_limit == 2

Chapters == 1..NumChapters

\* ---------------------------------------------------------------- state

VARIABLES
    epub_exists,      \* os.path.exists(epub_path)
    max_retries,      \* self.max_retries
    bg_files,         \* self.bg_files: [configured, files]
    run,              \* which invocation of main() this is
    pc_main,          \* where main()/convert_epub is
    i,                \* loop variable of the for loop of convert_epub
    tasks,            \* the list `tasks` of convert_epub (chapter indices)
    failed_chapters,  \* the list `failed_chapters` of convert_epub
    report,           \* what the failure summary printed
    st,               \* per chapter: where its task is
    attempt,          \* per chapter: loop variable of text_to_speech_with_retry
    last_exception,   \* per chapter: last_exception of text_to_speech_with_retry
    sleep_for,        \* per chapter: wait_time of the sleep in progress
    file,             \* per chapter: the file at output_path
    calls,            \* per chapter: backend calls started in this run
    last_error,       \* per chapter: exception raised by the latest backend call
    raised,           \* per chapter: exception process_chapter caught
    synth_ok,         \* per chapter: communicate.save returned normally
    post_log,         \* per chapter: post-processing steps entered, in order
    file0,            \* per chapter: the file when this run started
    outcome1,         \* per chapter: st at the end of the previous run
    items,            \* the document items get_chapters reads
    item_idx,         \* get_chapters: the item the loop is at
    chapters,         \* get_chapters: the list `chapters`
    filenames,        \* convert_epub: the filename of each chapter so far
    name_pc           \* where the naming of the chapters is

main_vars == <<epub_exists, max_retries, bg_files, run, pc_main, i, tasks,
               failed_chapters, report, st, attempt, last_exception,
               sleep_for, file, calls, last_error, raised, synth_ok, post_log,
               file0, outcome1>>

name_vars == <<items, item_idx, chapters, filenames, name_pc>>

vars == <<main_vars, name_vars>>

\* ---------------------------------------------------------------- values

\* Exceptions.  An exception raised by the backend is identified by the
\* attempt (1-based) that raised it.
NoneExc == [kind |-> "None", n |-> 0]
BackendExc(k) == [kind |-> "Exception", n |-> k]
TypeErrorExc == [kind |-> "TypeError", n |-> 0]
RuntimeErrorExc == [kind |-> "RuntimeError", n |-> 0]

\* Files.  getsize is the number of pieces of data in the file.
Absent == [exists |-> FALSE, data |-> <<>>]
Empty == [exists |-> TRUE, data |-> <<>>]
Partial == [exists |-> TRUE, data |-> <<"partial">>]
Old == [exists |-> TRUE, data |-> <<"old">>]
Audio == [exists |-> TRUE, data |-> <<"tts">>]

getsize(f) == Len(f.data)

Processed(f, step) == [exists |-> TRUE, data |-> Append(f.data, step)]

PostStates == {"add_bgm", "convert_hq", "write_lyrics"}
TerminalStates == {"done", "failed"}

\* The event loop is inside a blocking post-processing call.
Running == \E c \in Chapters : st[c] \in PostStates

\* ---------------------------------------------------------------- helpers

\* A skip check that forgets the size test.
ShouldSkipIfExists(f) == f.exists

\* A skip check with the size test inverted.
ShouldSkipIfEmpty(f) == f.exists /\ getsize(f) = 0

\* main.py:81  os.path.exists(output_path) and os.path.getsize(output_path) > 0
ShouldSkip(f) == f.exists /\ getsize(f) > 0

\* main.py:43  for attempt in range(self.max_retries)
HasMoreAttempts(a) == a < max_retries

\* main.py:56  if attempt < self.max_retries - 1
ShouldWait(a) == a < max_retries - 1

\* A backoff that takes the attempt number as 1-based.
wait_time_one_based(a) == 2 ^ (a + 1)

\* main.py:57  wait_time = 2**attempt
wait_time(a) == 2 ^ a

\* A handler that keeps the first exception instead of the latest.
RecordFirstException(prev, e) == IF prev = NoneExc THEN e ELSE prev

\* main.py:52  last_exception = e
RecordException(prev, e) == e

\* main.py:62  raise last_exception  (raise None is a TypeError)
RaisedBy(le) == IF le = NoneExc THEN TypeErrorExc ELSE le

\* A handler that only catches what the backend raises.
CaughtBackendOnly(e) == e.kind = "Exception"

\* main.py:115  except Exception as e
Caught(e) == e.kind \in {"Exception", "TypeError", "RuntimeError"}

\* A handler that logs the failure without recording the index.
AppendFailedDropped(list, index) == list

\* main.py:118  failed_chapters.append(index)
AppendFailed(list, index) == Append(list, index)

\* An existence check with the test inverted.
NotFoundInverted == epub_exists

\* main.py:66  if not os.path.exists(epub_path)
NotFound == ~epub_exists

\* A music test that only looks at whether -b was given.
BgEnabledIfConfigured == bg_files.configured

\* main.py:109  if self.bg_files and len(self.bg_files) > 0
BgEnabled == bg_files.configured /\ Len(bg_files.files) > 0

\* A wait that ends only when every task has converted its chapter.
AllTasksSucceeded ==
    \A k \in 1..Len(tasks) : st[tasks[k]] = "done"

\* A wait that returns as soon as one task has finished.
AnyTaskFinished ==
    \/ tasks = <<>>
    \/ \E k \in 1..Len(tasks) : st[tasks[k]] \in TerminalStates \cup {"crashed"}

\* main.py:90  await asyncio.gather(*tasks): every task has finished
AllTasksFinished ==
    \A k \in 1..Len(tasks) : st[tasks[k]] \in TerminalStates \cup {"crashed"}

\* main.py:90  gather propagates the first exception a task raised
SomeTaskCrashed == \E k \in 1..Len(tasks) : st[tasks[k]] = "crashed"

\* ---------------------------------------------------------------- Init

InitWith(retries, files) ==
    /\ epub_exists \in BOOLEAN
    /\ max_retries \in retries
    /\ bg_files \in {[configured |-> FALSE, files |-> <<>>],
                     [configured |-> TRUE, files |-> <<>>],
                     [configured |-> TRUE, files |-> <<"bgm.mp3">>]}
    /\ run = 1
    /\ pc_main = "start"
    /\ i = 1
    /\ tasks = <<>>
    /\ failed_chapters = <<>>
    /\ report = <<>>
    /\ st = [c \in Chapters |-> "none"]
    /\ attempt = [c \in Chapters |-> 0]
    /\ last_exception = [c \in Chapters |-> NoneExc]
    /\ sleep_for = [c \in Chapters |-> 0]
    /\ file \in files
    /\ calls = [c \in Chapters |-> 0]
    /\ last_error = [c \in Chapters |-> NoneExc]
    /\ raised = [c \in Chapters |-> NoneExc]
    /\ synth_ok = [c \in Chapters |-> FALSE]
    /\ post_log = [c \in Chapters |-> <<>>]
    /\ file0 = file
    /\ outcome1 = [c \in Chapters |-> "none"]
    /\ items = <<>>
    /\ item_idx = 1
    /\ chapters = <<>>
    /\ filenames = <<>>
    /\ name_pc = "idle"

Init == InitWith((0 - 1)..MaxRetries, [Chapters -> {Absent, Empty, Old}])

\* ---------------------------------------------------------------- tasks

\* main.py:61-62 and 115-118: the loop is exhausted, last_exception is
\* raised out of text_to_speech_with_retry and process_chapter handles it.
AllAttemptsFailed(c, le) ==
    LET e == RaisedBy(le) IN
    /\ raised' = [raised EXCEPT ![c] = e]
    /\ IF Caught(e)
       THEN /\ failed_chapters' = AppendFailed(failed_chapters, c)
            /\ st' = [st EXCEPT ![c] = "failed"]
       ELSE /\ failed_chapters' = failed_chapters
            /\ st' = [st EXCEPT ![c] = "crashed"]

\* main.py:43-47: iteration a of the retry loop, up to the await of the
\* backend call; or the end of the loop.
NextAttempt(c, a, le) ==
    IF HasMoreAttempts(a)
    THEN /\ st' = [st EXCEPT ![c] = "calling"]
         /\ attempt' = [attempt EXCEPT ![c] = a]
         /\ calls' = [calls EXCEPT ![c] = @ + 1]
         /\ UNCHANGED <<failed_chapters, raised>>
    ELSE /\ AllAttemptsFailed(c, le)
         /\ UNCHANGED <<attempt, calls>>

\* The event loop runs the created tasks in creation order: process_chapter
\* (main.py:107-108) enters text_to_speech_with_retry (main.py:41-47).
TaskStart(c) ==
    /\ pc_main = "gather"
    /\ ~Running
    /\ st[c] = "created"
    /\ \A d \in Chapters : d < c => st[d] # "created"
    /\ last_exception' = [last_exception EXCEPT ![c] = NoneExc]
    /\ NextAttempt(c, 0, NoneExc)
    /\ UNCHANGED <<name_vars, epub_exists, max_retries, bg_files, run, pc_main, i, tasks,
                   report, sleep_for, file, last_error, synth_ok, post_log,
                   file0, outcome1>>

\* main.py:47-49 then 109: communicate.save returns; the file holds the
\* synthesized audio; process_chapter goes on to post-processing.
BackendSucceeds(c) ==
    /\ ~Running
    /\ st[c] = "calling"
    /\ file' = [file EXCEPT ![c] = Audio]
    /\ synth_ok' = [synth_ok EXCEPT ![c] = TRUE]
    /\ st' = [st EXCEPT ![c] = IF BgEnabled THEN "add_bgm" ELSE "convert_hq"]
    /\ UNCHANGED <<name_vars, epub_exists, max_retries, bg_files, run, pc_main, i, tasks,
                   failed_chapters, report, attempt, last_exception, sleep_for,
                   calls, last_error, raised, post_log, file0, outcome1>>

\* main.py:47, 51-59: communicate.save raises.  The file may be untouched,
\* created empty, or partly written.
BackendFails(c) ==
    /\ ~Running
    /\ st[c] = "calling"
    /\ LET e == BackendExc(calls[c])
           le == RecordException(last_exception[c], e)
       IN /\ last_error' = [last_error EXCEPT ![c] = e]
          /\ last_exception' = [last_exception EXCEPT ![c] = le]
          /\ \E f \in {file[c], Empty, Partial} :
                file' = [file EXCEPT ![c] = f]
          /\ IF ShouldWait(attempt[c])
             THEN /\ st' = [st EXCEPT ![c] = "sleeping"]
                  /\ sleep_for' = [sleep_for EXCEPT ![c] = wait_time(attempt[c])]
                  /\ UNCHANGED <<attempt, calls, failed_chapters, raised>>
             ELSE /\ NextAttempt(c, attempt[c] + 1, le)
                  /\ UNCHANGED sleep_for
    /\ UNCHANGED <<name_vars, epub_exists, max_retries, bg_files, run, pc_main, i, tasks,
                   report, synth_ok, post_log, file0, outcome1>>

\* main.py:47: communicate.save never returns.  Nothing bounds the await.
BackendNeverReturns(c) ==
    /\ ~Running
    /\ st[c] = "calling"
    /\ st' = [st EXCEPT ![c] = "hung"]
    /\ UNCHANGED <<name_vars, epub_exists, max_retries, bg_files, run, pc_main, i, tasks,
                   failed_chapters, report, attempt, last_exception, sleep_for,
                   file, calls, last_error, raised, synth_ok, post_log, file0,
                   outcome1>>

\* main.py:59 then 43-47: the sleep ends and the next iteration starts.
SleepDone(c) ==
    /\ ~Running
    /\ st[c] = "sleeping"
    /\ sleep_for' = [sleep_for EXCEPT ![c] = 0]
    /\ NextAttempt(c, attempt[c] + 1, last_exception[c])
    /\ UNCHANGED <<name_vars, epub_exists, max_retries, bg_files, run, pc_main, i, tasks,
                   report, last_exception, file, last_error, synth_ok,
                   post_log, file0, outcome1>>

\* ---------------------------------------------------------------- post-processing

\* What add_bgm can meet (utils.py:176-247).
BgmOutcomes ==
    {"ok", "bgm_missing", "no_ffmpeg_exe", "ffmpeg_not_found", "exit_nonzero"}

\* utils.py:191: get_ffmpeg_exe() is called outside the try block of add_bgm,
\* so its RuntimeError leaves add_bgm; every other failure is handled inside
\* (utils.py:176-181, 237-247) and add_bgm returns False.
BgmRaises(outcome) == outcome = "no_ffmpeg_exe"

\* main.py:109-111 and utils.py:153-252: add_bgm(output_path, bg_path).
AddBgm(c) ==
    /\ st[c] = "add_bgm"
    /\ post_log' = [post_log EXCEPT ![c] = Append(@, "add_bgm")]
    /\ \E outcome \in BgmOutcomes :
        IF ~file[c].exists
        THEN \* utils.py:176-178: main audio not found, return False
             /\ st' = [st EXCEPT ![c] = "convert_hq"]
             /\ UNCHANGED <<file, raised, failed_chapters>>
        ELSE IF BgmRaises(outcome)
        THEN \* the exception reaches main.py:115-118
             /\ raised' = [raised EXCEPT ![c] = RuntimeErrorExc]
             /\ IF Caught(RuntimeErrorExc)
                THEN /\ failed_chapters' = AppendFailed(failed_chapters, c)
                     /\ st' = [st EXCEPT ![c] = "failed"]
                ELSE /\ failed_chapters' = failed_chapters
                     /\ st' = [st EXCEPT ![c] = "crashed"]
             /\ UNCHANGED file
        ELSE /\ file' = [file EXCEPT ![c] =
                    IF outcome = "ok" THEN Processed(@, "bgm") ELSE @]
             /\ st' = [st EXCEPT ![c] = "convert_hq"]
             /\ UNCHANGED <<raised, failed_chapters>>
    /\ UNCHANGED <<name_vars, epub_exists, max_retries, bg_files, run, pc_main, i, tasks,
                   report, attempt, last_exception, sleep_for, calls,
                   last_error, synth_ok, file0, outcome1>>

\* main.py:112 and utils.py:106-150: convert_mp3_high_quality(output_path).
\* Everything is inside the try block; on failure the temp file is removed.
ConvertHq(c) ==
    /\ st[c] = "convert_hq"
    /\ post_log' = [post_log EXCEPT ![c] = Append(@, "convert_hq")]
    /\ \E ok \in BOOLEAN :
        file' = [file EXCEPT ![c] = IF ok THEN Processed(@, "hq") ELSE @]
    /\ st' = [st EXCEPT ![c] = "write_lyrics"]
    /\ UNCHANGED <<name_vars, epub_exists, max_retries, bg_files, run, pc_main, i, tasks,
                   failed_chapters, report, attempt, last_exception, sleep_for,
                   calls, last_error, raised, synth_ok, file0, outcome1>>

\* main.py:113-114 and utils.py:84-103: write_lyrics_to_mp3(output_path,
\* content); then "Successfully converted".
WriteLyrics(c) ==
    /\ st[c] = "write_lyrics"
    /\ post_log' = [post_log EXCEPT ![c] = Append(@, "write_lyrics")]
    /\ \E outcome \in {"ok", "too_short", "error"} :
        file' = [file EXCEPT ![c] =
                    IF outcome = "ok" THEN Processed(@, "lyrics") ELSE @]
    /\ st' = [st EXCEPT ![c] = "done"]
    /\ UNCHANGED <<name_vars, epub_exists, max_retries, bg_files, run, pc_main, i, tasks,
                   failed_chapters, report, attempt, last_exception, sleep_for,
                   calls, last_error, raised, synth_ok, file0, outcome1>>

\* ---------------------------------------------------------------- main

\* main.py:174-175, 64-71 (and 178-179 when the document is missing).
ConvertEpub ==
    /\ pc_main = "start"
    /\ IF NotFound
       THEN /\ pc_main' = "not_found"
            /\ UNCHANGED <<i, tasks, failed_chapters>>
       ELSE /\ pc_main' = IF NumChapters = 0 THEN "gather" ELSE "loop"
            /\ i' = 1
            /\ tasks' = <<>>
            /\ failed_chapters' = <<>>
    /\ UNCHANGED <<name_vars, epub_exists, max_retries, bg_files, run, report, st,
                   attempt, last_exception, sleep_for, file, calls, last_error,
                   raised, synth_ok, post_log, file0, outcome1>>

\* main.py:73-88: one iteration of the for loop.
EnumerateChapter ==
    /\ pc_main = "loop"
    /\ IF ShouldSkip(file[i])
       THEN /\ st' = [st EXCEPT ![i] = "skipped"]
            /\ UNCHANGED tasks
       ELSE /\ st' = [st EXCEPT ![i] = "created"]
            /\ tasks' = Append(tasks, i)
    /\ IF i = NumChapters
       THEN /\ pc_main' = "gather"
            /\ UNCHANGED i
       ELSE /\ pc_main' = "loop"
            /\ i' = i + 1
    /\ UNCHANGED <<name_vars, epub_exists, max_retries, bg_files, run, failed_chapters,
                   report, attempt, last_exception, sleep_for, file, calls,
                   last_error, raised, synth_ok, post_log, file0, outcome1>>

\* main.py:90-96 and 176-177 (183 when gather raises).
Gather ==
    /\ pc_main = "gather"
    /\ ~Running
    /\ SomeTaskCrashed \/ AllTasksFinished
    /\ IF SomeTaskCrashed
       THEN /\ pc_main' = "error"
            /\ UNCHANGED report
       ELSE /\ pc_main' = "done"
            /\ report' = failed_chapters
    /\ UNCHANGED <<name_vars, epub_exists, max_retries, bg_files, run, i, tasks,
                   failed_chapters, st, attempt, last_exception, sleep_for,
                   file, calls, last_error, raised, synth_ok, post_log, file0,
                   outcome1>>

\* main.py:121-177: main() is run again with the same arguments; the files
\* of the output directory are what the previous run left.
Rerun ==
    /\ pc_main = "done"
    /\ run < Runs
    /\ run' = run + 1
    /\ pc_main' = "start"
    /\ i' = 1
    /\ tasks' = <<>>
    /\ failed_chapters' = <<>>
    /\ report' = <<>>
    /\ outcome1' = st
    /\ st' = [c \in Chapters |-> "none"]
    /\ attempt' = [c \in Chapters |-> 0]
    /\ last_exception' = [c \in Chapters |-> NoneExc]
    /\ sleep_for' = [c \in Chapters |-> 0]
    /\ calls' = [c \in Chapters |-> 0]
    /\ last_error' = [c \in Chapters |-> NoneExc]
    /\ raised' = [c \in Chapters |-> NoneExc]
    /\ synth_ok' = [c \in Chapters |-> FALSE]
    /\ post_log' = [c \in Chapters |-> <<>>]
    /\ file0' = file
    /\ UNCHANGED <<name_vars, epub_exists, max_retries, bg_files, file>>

\* ---------------------------------------------------------------- specification

TaskStep(c) ==
    \/ TaskStart(c)
    \/ BackendSucceeds(c)
    \/ BackendFails(c)
    \/ BackendNeverReturns(c)
    \/ SleepDone(c)
    \/ AddBgm(c)
    \/ ConvertHq(c)
    \/ WriteLyrics(c)

Next ==
    \/ ConvertEpub
    \/ EnumerateChapter
    \/ Gather
    \/ Rerun
    \/ \E c \in Chapters : TaskStep(c)

Spec == Init /\ [][Next]_vars

\* main.py:174  asyncio.run: the event loop keeps running main's coroutine
\* and every task that is ready, so none of them is left unscheduled for
\* ever.  Running main() once more is the user's choice.
Fairness ==
    /\ WF_vars(ConvertEpub)
    /\ WF_vars(EnumerateChapter)
    /\ WF_vars(Gather)
    /\ \A c \in Chapters : WF_vars(TaskStep(c))

\* main.py:174-177: one run of main().
RunNext ==
    \/ ConvertEpub
    \/ EnumerateChapter
    \/ Gather
    \/ \E c \in Chapters : TaskStep(c)

\* Whether an output file is empty or absent makes no difference to a run's
\* progress, and neither does a retry count below 0.
InitFair == InitWith(0..MaxRetries, [Chapters -> {Absent, Old}])

FairSpec == InitFair /\ [][RunNext]_vars /\ Fairness

\* Value of --retries under which the backoff waits 1, 2 and 4 all occur.
BackoffRetries == 4

\* Runs with --retries BackoffRetries in which only the first two chapters
\* may lack an output file.
InitBackoff ==
    InitWith({BackoffRetries},
             {f \in [Chapters -> {Absent, Empty, Old}] :
                  \A c \in Chapters : c > 2 => f[c] = Old})

BackoffSpec == InitBackoff /\ [][Next]_vars

\* ---------------------------------------------------------------- chapter names

\* Strings are sequences of one-character strings.

\* Largest number of document items get_chapters reads.
MaxItems == 3

T_Intro == <<"I", "n", "t", "r", "o">>
T_ABTest == <<"A", "/", "B", ":", "T", "e", "s", "t">>
T_Plain == <<"A", "B", "T", "e", "s", "t">>
T_Illegal == <<"<", ">", ":", "\"", "/", "\\", "|", "?", "*">>
T_Padded == <<" ", "I", "n", "t", "r", "o", " ">>

\* The heading text of an item; NoHeading when it has no h1/h2/h3.
NoHeading == <<"(", "n", "o", "n", "e", ")">>
Headings == {T_Intro, T_ABTest, T_Plain, T_Illegal, T_Padded, NoHeading}

\* The body text of an item, tags removed: empty, blank, or text.
Bodies == {<<>>, <<" ">>, <<" ", "x", " ">>}

Items == [heading : Headings, body : Bodies]

\* utils.py:18  str.strip()
RECURSIVE Strip(_)
Strip(s) ==
    IF s = <<>> THEN s
    ELSE IF Head(s) = " " THEN Strip(Tail(s))
    ELSE IF s[Len(s)] = " " THEN Strip(SubSeq(s, 1, Len(s) - 1))
    ELSE s

\* str(n) for n >= 0
RECURSIVE Str(_)
Str(n) ==
    LET d == <<"0", "1", "2", "3", "4", "5", "6", "7", "8", "9">>[(n % 10) + 1]
    IN IF n < 10 THEN <<d>> ELSE Str(n \div 10) \o <<d>>

\* main.py:75  f"{i:03d}"
RECURSIVE PadLeft(_, _)
PadLeft(s, width) == IF Len(s) >= width THEN s ELSE PadLeft(<<"0">> \o s, width)

\* The characters of the pattern of utils.py:23.
IllegalChars == {"<", ">", ":", "\"", "/", "\\", "|", "?", "*"}

\* A sanitizer that replaces each illegal character by an underscore.
RECURSIVE sanitize_replacing(_)
sanitize_replacing(filename) ==
    IF filename = <<>> THEN <<>>
    ELSE (IF Head(filename) \in IllegalChars THEN <<"_">> ELSE <<Head(filename)>>)
         \o sanitize_replacing(Tail(filename))

\* utils.py:21-23  re.sub(r'[<>:"/\\|?*]', "", filename)
RECURSIVE sanitize_filename(_)
sanitize_filename(filename) ==
    IF filename = <<>> THEN <<>>
    ELSE (IF Head(filename) \in IllegalChars THEN <<>> ELSE <<Head(filename)>>)
         \o sanitize_filename(Tail(filename))

\* A filename without the index prefix.
filename_without_index(idx, safe_title) == safe_title \o <<".", "m", "p", "3">>

\* main.py:75  filename = f"{i:03d}_{safe_title}.mp3"
filename_of(idx, safe_title) ==
    PadLeft(Str(idx), 3) \o <<"_">> \o safe_title \o <<".", "m", "p", "3">>

\* utils.py:35-39  the title of an item
title_of(item, n_chapters) ==
    IF item.heading # NoHeading
    THEN Strip(item.heading)
    ELSE <<"C", "h", "a", "p", "t", "e", "r", "_">> \o Str(n_chapters + 1)

\* The document is opened (utils.py:28-29).
NameInit ==
    /\ epub_exists = TRUE
    /\ max_retries = 0
    /\ bg_files = [configured |-> FALSE, files |-> <<>>]
    /\ run = 1
    /\ pc_main = "start"
    /\ i = 1
    /\ tasks = <<>>
    /\ failed_chapters = <<>>
    /\ report = <<>>
    /\ st = [c \in Chapters |-> "none"]
    /\ attempt = [c \in Chapters |-> 0]
    /\ last_exception = [c \in Chapters |-> NoneExc]
    /\ sleep_for = [c \in Chapters |-> 0]
    /\ file = [c \in Chapters |-> Absent]
    /\ calls = [c \in Chapters |-> 0]
    /\ last_error = [c \in Chapters |-> NoneExc]
    /\ raised = [c \in Chapters |-> NoneExc]
    /\ synth_ok = [c \in Chapters |-> FALSE]
    /\ post_log = [c \in Chapters |-> <<>>]
    /\ file0 = file
    /\ outcome1 = [c \in Chapters |-> "none"]
    /\ items \in UNION {[1..n -> Items] : n \in 0..MaxItems}
    /\ item_idx = 1
    /\ chapters = <<>>
    /\ filenames = <<>>
    /\ name_pc = "get_chapters"

\* utils.py:31-44: one iteration of the loop of get_chapters.
GetChaptersItem ==
    /\ name_pc = "get_chapters"
    /\ item_idx <= Len(items)
    /\ LET item == items[item_idx]
           title == title_of(item, Len(chapters))
           content == Strip(item.body)
       IN chapters' = IF Strip(content) # <<>>
                      THEN Append(chapters, [title |-> title, content |-> content])
                      ELSE chapters
    /\ item_idx' = item_idx + 1
    /\ UNCHANGED <<main_vars, items, filenames, name_pc>>

\* utils.py:46 and main.py:69: get_chapters returns.
GetChaptersReturn ==
    /\ name_pc = "get_chapters"
    /\ item_idx > Len(items)
    /\ name_pc' = IF chapters = <<>> THEN "named" ELSE "naming"
    /\ UNCHANGED <<main_vars, items, item_idx, chapters, filenames>>

\* main.py:73-76: the name of the next chapter of the for loop.
NameChapter ==
    /\ name_pc = "naming"
    /\ LET idx == Len(filenames) + 1
           safe_title == sanitize_filename(chapters[idx].title)
       IN /\ filenames' = Append(filenames, filename_of(idx, safe_title))
          /\ name_pc' = IF idx = Len(chapters) THEN "named" ELSE "naming"
    /\ UNCHANGED <<main_vars, items, item_idx, chapters>>

NameNext ==
    \/ GetChaptersItem
    \/ GetChaptersReturn
    \/ NameChapter

NameSpec == NameInit /\ [][NameNext]_vars

\* ---------------------------------------------------------------- properties

Range(seq) == {seq[k] : k \in 1..Len(seq)}

\* Chapters whose backend call is in progress (awaited, not returned).
InProgress == {c \in Chapters : st[c] \in {"calling", "hung"}}

\* The chapter's synthesis failed on every attempt.
SynthesisFailed(c) == st[c] = "failed" /\ ~synth_ok[c]

\* C1: in every reachable state the number of chapters whose backend call is
\* in progress is at most concurrency_limit.
C1_ConcurrencyBound == Cardinality(InProgress) <= concurrency_limit

\* C2: no exception of a chapter task leaves convert_epub, and when
\* convert_epub has returned every chapter whose synthesis failed on every
\* attempt is in the failure report while every other chapter is Done or
\* Skipped.
C2_FailureIsolation ==
    /\ pc_main # "error"
    /\ pc_main = "done" =>
         \A c \in Chapters :
            /\ SynthesisFailed(c) => c \in Range(report)
            /\ ~SynthesisFailed(c) => st[c] \in {"done", "skipped"}

\* C3: a chapter whose attempts all failed (max_retries >= 1) made exactly
\* max_retries backend calls, and the exception surfaced is the one the last
\* of them raised.
C3_RetryBound ==
    \A c \in Chapters :
        (SynthesisFailed(c) /\ max_retries >= 1) =>
            /\ calls[c] = max_retries
            /\ raised[c] = BackendExc(max_retries)
            /\ raised[c] = last_error[c]

\* C3 witness: a chapter failed after two failed attempts.
C3_Witness ==
    \E c \in Chapters :
        /\ SynthesisFailed(c)
        /\ max_retries = 2
        /\ calls[c] = 2
        /\ raised[c] = BackendExc(2)

\* C4: a chapter whose output file exists with non-zero size at the start of
\* the run is never attempted nor post-processed, its file stays as it was,
\* it is not in the failed list, and once enumerated it is Skipped; a chapter
\* whose file is missing or empty is never Skipped, gets a task, and (with
\* max_retries >= 1) a backend call as soon as its task has started.
C4_SkipCheck ==
    \A c \in Chapters :
        IF file0[c].exists /\ Len(file0[c].data) > 0
        THEN /\ st[c] \in {"none", "skipped"}
             /\ st[c] = "none" => pc_main \in {"start", "loop", "not_found"} /\ i <= c
             /\ calls[c] = 0
             /\ post_log[c] = <<>>
             /\ file[c] = file0[c]
             /\ c \notin Range(failed_chapters)
             /\ c \notin Range(tasks)
        ELSE /\ st[c] # "skipped"
             /\ st[c] # "none" => c \in Range(tasks)
             /\ (st[c] \notin {"none", "created"} /\ max_retries >= 1)
                    => calls[c] >= 1

\* C4 witness: a run finished with one chapter skipped and another, whose
\* file was empty, synthesized.
C4_Witness ==
    /\ pc_main = "done"
    /\ \E c, d \in Chapters :
        /\ st[c] = "skipped"
        /\ file0[d] = Empty
        /\ calls[d] >= 1
        /\ st[d] = "done"

\* C5 as claimed: the second run makes no backend call, ends with every
\* chapter Skipped and reports no failure.
C5_Idempotence ==
    run = 2 =>
        /\ \A c \in Chapters : calls[c] = 0
        /\ pc_main = "done" =>
             /\ \A c \in Chapters : st[c] = "skipped"
             /\ report = <<>>

\* C5 amended: after a first run in which every chapter ended Done or
\* Skipped, the second run makes no backend call, ends with every chapter
\* Skipped and reports no failure.
C5_IdempotenceAfterSuccess ==
    (run = 2 /\ \A c \in Chapters : outcome1[c] \in {"done", "skipped"}) =>
        /\ \A c \in Chapters : calls[c] = 0 /\ post_log[c] = <<>>
        /\ failed_chapters = <<>>
        /\ pc_main = "done" =>
             /\ \A c \in Chapters : st[c] = "skipped"
             /\ report = <<>>

\* C5 witness: the second run has returned after a first run that synthesized
\* a chapter and failed none.
C5_Witness ==
    /\ run = 2
    /\ pc_main = "done"
    /\ \A c \in Chapters : outcome1[c] \in {"done", "skipped"}
    /\ \E c \in Chapters : outcome1[c] = "done"

\* C6: a chapter whose synthesis succeeded is never in the failed list,
\* whatever happens in post-processing.
C6_PostProcessingNonFatal ==
    \A c \in Chapters : synth_ok[c] => c \notin Range(failed_chapters)

\* C7: a backend call that does not return is ended, so the run is never
\* stuck while it awaits its tasks: some step can always be taken.
C7_TimeoutEndsAttempt == pc_main = "gather" => ENABLED Next

\* C8: the failure report lists the failed chapters in ascending order.
C8_ReportAscending ==
    \A j, k \in 1..Len(report) : j < k => report[j] < report[k]

\* C9: when the failure summary has been produced no chapter is still waiting
\* to start, calling the backend, sleeping or in post-processing.
C9_ReportAfterAllTerminal ==
    pc_main = "done" =>
        /\ \A c \in Chapters : st[c] \in {"skipped", "done", "failed"}
        /\ \A k \in 1..Len(tasks) : st[tasks[k]] \in {"done", "failed"}
        /\ report = failed_chapters

\* C9 witness: the summary was produced after one chapter failed and another
\* was converted.
C9_Witness ==
    /\ pc_main = "done"
    /\ report # <<>>
    /\ \E c \in Chapters : st[c] = "done"

\* C10: when the document does not exist, convert_epub only raises the
\* not-found error, which main handles: no chapter is enumerated, no task is
\* created, no backend call is made and no output file changes.
C10_NotFoundFailsFast ==
    ~epub_exists =>
        /\ pc_main \in {"start", "not_found"}
        /\ tasks = <<>>
        /\ \A c \in Chapters :
            /\ st[c] = "none"
            /\ calls[c] = 0
            /\ post_log[c] = <<>>
            /\ file[c] = file0[c]

\* C10 witness: main has handled the not-found error.
C10_Witness == ~epub_exists /\ pc_main = "not_found"

\* The item at position p has content left after stripping.
NonEmptyItem(p) == \E k \in 1..Len(items[p].body) : items[p].body[k] # " "

\* The number of items with content among the first p items.
Rank(p) == Cardinality({q \in 1..p : NonEmptyItem(q)})

\* The name the chapter made from item p is to get.
ExpectedName(p) ==
    LET h == items[p].heading
        d == <<"1", "2", "3", "4", "5", "6", "7", "8", "9">>[Rank(p)]
        title == IF h = NoHeading
                 THEN <<"C", "h", "a", "p", "t", "e", "r", "_", d>>
                 ELSE IF h = T_Padded THEN T_Intro ELSE h
        legal(ch) == ch \notin {"<", ">", ":", "\"", "/", "\\", "|", "?", "*"}
    IN <<"0", "0", d, "_">> \o SelectSeq(title, legal) \o <<".", "m", "p", "3">>

\* C11: when the chapters have been named, there is one filename per item
\* with non-empty content, in source order, and it is the 3-digit zero-padded
\* 1-based index among those items, an underscore, the title without the
\* characters < > : " / \ | ? *, and ".mp3"; the titles Intro, A/B:Test,
\* Intro give 001_Intro.mp3, 002_ABTest.mp3, 003_Intro.mp3.
C11_Filenames ==
    name_pc = "named" =>
        /\ Len(filenames) = Rank(Len(items))
        /\ \A p \in 1..Len(items) :
              NonEmptyItem(p) => filenames[Rank(p)] = ExpectedName(p)
        /\ (/\ Len(items) = 3
            /\ \A p \in 1..Len(items) : NonEmptyItem(p)
            /\ <<items[1].heading, items[2].heading, items[3].heading>>
                   = <<T_Intro, T_ABTest, T_Intro>>)
           => filenames =
                <<<<"0", "0", "1", "_", "I", "n", "t", "r", "o", ".", "m", "p", "3">>,
                  <<"0", "0", "2", "_", "A", "B", "T", "e", "s", "t", ".", "m", "p", "3">>,
                  <<"0", "0", "3", "_", "I", "n", "t", "r", "o", ".", "m", "p", "3">>>>

\* C11 witness: an empty first item was dropped and the second item, titled
\* A/B:Test, became chapter 1, followed by a second chapter.
C11_Witness ==
    /\ name_pc = "named"
    /\ Len(items) = 3
    /\ items[1].body = <<>>
    /\ items[2].heading = T_ABTest
    /\ NonEmptyItem(2)
    /\ NonEmptyItem(3)
    /\ Len(filenames) = 2
    /\ filenames[1] =
         <<"0", "0", "1", "_", "A", "B", "T", "e", "s", "t", ".", "m", "p", "3">>

\* C12: any two distinct chapters of a run have distinct filenames, hence
\* distinct output paths in the output directory.
C12_UniquePaths ==
    \A j, k \in 1..Len(filenames) : j # k => filenames[j] # filenames[k]

\* C12 witness: two chapters whose titles are equal after sanitization, and
\* two whose titles are equal, have been named.
C12_Witness ==
    /\ name_pc = "named"
    /\ Len(filenames) = 3
    /\ chapters[1].title = T_ABTest
    /\ chapters[2].title = T_Plain
    /\ chapters[3].title = T_Plain

\* The waits 2^(k-1) after failed attempt k = 1, 2, ...
BackoffSchedule == <<1, 2, 4, 8, 16, 32>>

\* C13: a sleeping task is waiting 2^(k-1) after its k-th failed attempt,
\* k < max_retries; a failed attempt k < max_retries is followed by that
\* wait and the last attempt by none; an attempt after the first starts only
\* when the wait before it has ended.
C13_Backoff ==
    /\ [](\A c \in Chapters :
            st[c] = "sleeping" =>
                /\ calls[c] >= 1
                /\ calls[c] < max_retries
                /\ sleep_for[c] = BackoffSchedule[calls[c]])
    /\ [][\A c \in Chapters :
            /\ (run' = run /\ last_error'[c] # last_error[c]) =>
                  IF calls[c] < max_retries
                  THEN /\ st'[c] = "sleeping"
                       /\ sleep_for'[c] = BackoffSchedule[calls[c]]
                       /\ calls'[c] = calls[c]
                  ELSE /\ st'[c] = "failed"
                       /\ sleep_for'[c] = 0
            /\ (calls'[c] > calls[c] /\ calls[c] >= 1) =>
                  /\ st[c] = "sleeping"
                  /\ calls'[c] = calls[c] + 1
            /\ (st[c] = "sleeping" /\ st'[c] # "sleeping") =>
                  /\ st'[c] = "calling"
                  /\ sleep_for'[c] = 0
         ]_vars

\* C13 witness: a task is waiting 4 after its third failed attempt.
C13_Witness ==
    \E c \in Chapters :
        /\ st[c] = "sleeping"
        /\ calls[c] = 3
        /\ sleep_for[c] = 4

\* s is an initial segment of t
IsPrefix(s, t) ==
    /\ Len(s) <= Len(t)
    /\ \A k \in 1..Len(s) : s[k] = t[k]

\* The steps a chapter's post-processing is expected to perform, in order.
ExpectedSteps ==
    IF bg_files.configured /\ bg_files.files # <<>>
    THEN <<"add_bgm", "convert_hq", "write_lyrics">>
    ELSE <<"convert_hq", "write_lyrics">>

\* C14: the steps performed on a chapter are an initial segment of mixing
\* (only with a non-empty music pool), normalization, lyrics; a step is
\* performed or pending only after the chapter's synthesis succeeded; a Done
\* chapter went through all of them; a chapter whose synthesis failed has
\* none.
C14_StepOrdering ==
    \A c \in Chapters :
        /\ IsPrefix(post_log[c], ExpectedSteps)
        /\ (post_log[c] # <<>> \/ st[c] \in PostStates) => synth_ok[c]
        /\ st[c] \in PostStates =>
              /\ Len(post_log[c]) < Len(ExpectedSteps)
              /\ ExpectedSteps[Len(post_log[c]) + 1] = st[c]
        /\ st[c] = "done" => post_log[c] = ExpectedSteps
        /\ ~synth_ok[c] => post_log[c] = <<>>

\* C14 witness: a chapter is Done after mixing, normalization and lyrics, and
\* another one failed its synthesis.
C14_Witness ==
    \E c, d \in Chapters :
        /\ st[c] = "done"
        /\ post_log[c] = <<"add_bgm", "convert_hq", "write_lyrics">>
        /\ st[d] = "failed"
        /\ calls[d] > 0
        /\ ~synth_ok[d]

\* C15: a mixing or normalization step either replaces the chapter's file by
\* its complete result or leaves it exactly as it was, and in both cases the
\* next step of the chain runs on it.
C15_FailedStepKeepsFile ==
    [][\A c \in Chapters :
          /\ (st[c] = "add_bgm" /\ st'[c] # "add_bgm") =>
                /\ file'[c] \in {file[c], Processed(file[c], "bgm")}
                /\ st'[c] = "convert_hq"
          /\ (st[c] = "convert_hq" /\ st'[c] # "convert_hq") =>
                /\ file'[c] \in {file[c], Processed(file[c], "hq")}
                /\ st'[c] = "write_lyrics"
      ]_vars

\* The part of C15 about the file alone: a mixing or normalization step
\* never leaves anything but the old file or its complete result.
C15_FileKeptOrReplaced ==
    [][\A c \in Chapters :
          /\ (st[c] = "add_bgm" /\ st'[c] # "add_bgm") =>
                file'[c] \in {file[c], Processed(file[c], "bgm")}
          /\ (st[c] = "convert_hq" /\ st'[c] # "convert_hq") =>
                file'[c] \in {file[c], Processed(file[c], "hq")}
      ]_vars

\* The states a chapter can end a run in.
EndStates == {"skipped", "done", "failed"}

\* C16: when a run has ended every chapter is Skipped, Done or Failed; a
\* chapter in one of these states stays as it is for the rest of the run (no
\* backend call, wait or post-processing step); and a chapter's index is in
\* the failed list exactly when the chapter is Failed, and then once.
C16_StateMachine ==
    /\ [](/\ pc_main = "done" => \A c \in Chapters : st[c] \in EndStates
          /\ \A c \in Chapters :
                /\ c \in Range(failed_chapters) <=> st[c] = "failed"
                /\ Cardinality({k \in 1..Len(failed_chapters) :
                                    failed_chapters[k] = c}) <= 1
                /\ st[c] \in EndStates => sleep_for[c] = 0)
    /\ [][\A c \in Chapters :
            (st[c] \in EndStates /\ run' = run) =>
                /\ st'[c] = st[c]
                /\ calls'[c] = calls[c]
                /\ attempt'[c] = attempt[c]
                /\ sleep_for'[c] = sleep_for[c]
                /\ post_log'[c] = post_log[c]
                /\ file'[c] = file[c]
         ]_vars

\* C16 witness: a run has ended with a Skipped, a Done and a Failed chapter.
C16_Witness ==
    /\ pc_main = "done"
    /\ \E c, d, e \in Chapters :
        /\ st[c] = "skipped"
        /\ st[d] = "done"
        /\ st[e] = "failed"
        /\ failed_chapters = <<e>>

\* The chapter ended the previous run Failed because its synthesis failed on
\* every attempt: what the run left at the output path is not the
\* synthesized audio.
FailedSynthesisBefore(c) ==
    /\ run > 1
    /\ outcome1[c] = "failed"
    /\ file0[c] # Audio

\* C17: a chapter whose synthesis failed in the previous run is not Skipped
\* by this run, whatever file the failed synthesis left behind.
C17_FailedFileNotTrusted ==
    \A c \in Chapters : FailedSynthesisBefore(c) => st[c] # "skipped"

\* The case of C17 in which the failed synthesis left nothing, or an empty
\* file: the chapter is synthesized again.
C17_FailedEmptyFileNotTrusted ==
    \A c \in Chapters :
        (FailedSynthesisBefore(c) /\ getsize(file0[c]) = 0) =>
            st[c] # "skipped"

\* The part of C18 about attempts and waits: at most max_retries backend
\* calls per chapter, and none, and no wait, after a successful one.
C18_NoAttemptAfterSuccess ==
    /\ [](\A c \in Chapters :
            /\ calls[c] <= (IF max_retries > 0 THEN max_retries ELSE 0)
            /\ synth_ok[c] => (calls[c] >= 1 /\ sleep_for[c] = 0
                               /\ st[c] \notin {"calling", "sleeping"}))
    /\ [][\A c \in Chapters :
            (synth_ok[c] /\ run' = run) =>
                /\ calls'[c] = calls[c]
                /\ attempt'[c] = attempt[c]
                /\ sleep_for'[c] = 0
                /\ st'[c] \notin {"calling", "sleeping"}
         ]_vars

\* C18: at most max_retries backend calls per chapter; after a successful
\* one the chapter makes no further call and no wait, is in post-processing
\* or Done, and is Done when the run has ended.
C18_StopOnFirstSuccess ==
    /\ C18_NoAttemptAfterSuccess
    /\ [](\A c \in Chapters :
            synth_ok[c] =>
                /\ st[c] \in PostStates \cup {"done"}
                /\ pc_main = "done" => st[c] = "done")

\* Some backend call never returns.
SomeCallHangs == \E c \in Chapters : st[c] = "hung"

\* C19: unless a backend call never returns, every launched task eventually
\* is Done or Failed and convert_epub eventually returns (with its report or
\* with the not-found error).
C19_Termination ==
    /\ \A c \in Chapters :
          (st[c] = "created") ~> (st[c] \in {"done", "failed"} \/ SomeCallHangs)
    /\ (pc_main = "start") ~> (pc_main \in {"done", "not_found"} \/ SomeCallHangs)

\* C19 witness: convert_epub has returned after a task went through a failed
\* attempt, a wait and a successful attempt, and another task failed.
C19_Witness ==
    /\ pc_main = "done"
    /\ ~SomeCallHangs
    /\ \E c, d \in Chapters :
        /\ st[c] = "done"
        /\ calls[c] = 2
        /\ st[d] = "failed"

\* C20: with max_retries <= 0 no backend call is made and no post-processing
\* step runs; a chapter that is not Skipped ends Failed with its index in the
\* failed list once its task has run; and convert_epub returns with every
\* such chapter in its report, without raising.
C20_DegenerateRetries ==
    max_retries <= 0 =>
        /\ pc_main # "error"
        /\ \A c \in Chapters :
            /\ calls[c] = 0
            /\ ~synth_ok[c]
            /\ post_log[c] = <<>>
            /\ st[c] \in {"none", "skipped", "created", "failed"}
            /\ st[c] = "failed" =>
                  /\ c \in Range(failed_chapters)
                  /\ raised[c] = TypeErrorExc
            /\ pc_main = "done" =>
                  /\ st[c] \in {"skipped", "failed"}
                  /\ st[c] = "failed" => c \in Range(report)

\* C20 witness: convert_epub has returned with --retries 0, one chapter
\* Skipped and the others Failed and reported.
C20_Witness ==
    /\ max_retries = 0
    /\ pc_main = "done"
    /\ \E c \in Chapters : st[c] = "skipped"
    /\ \E c \in Chapters : st[c] = "failed" /\ c \in Range(report)
    /\ \A c \in Chapters : calls[c] = 0

====
